---- MODULE Spec2Model ----
(***************************************************************************)
(* A model of goatdclient/goatd_client.py: the Goatd transport, the Goat   *)
(* proxy with its cached snapshot and auto_update policy, the Behaviour    *)
(* controller and the two waypoint queries.  The daemon is the             *)
(* environment: every request receives a nondeterministically chosen       *)
(* response (a transport failure, a body that is not JSON, or a JSON       *)
(* value).  The client is single-threaded and synchronous, so every call   *)
(* of a public operation is one atomic action.                             *)
(***************************************************************************)
EXTENDS Integers, Sequences, FiniteSets

VARIABLES goat, call, goatGets, updateCalls, lastGoat, nOps

vars == <<goat, call, goatGets, updateCalls, lastGoat, nOps>>

\* Number of public calls explored in one behaviour.
MaxOps == 3

(***************************************************************************)
(* Python / JSON values.  Every value is a record tagged by its type t.    *)
(* A dict is a set of <<key, value>> pairs with distinct keys; a list is a *)
(* sequence.  JSON null decodes to None, and dict.get of an absent key     *)
(* yields None as well.                                                    *)
(***************************************************************************)
None == [t |-> "NoneType"]
PyTrue == [t |-> "bool", v |-> TRUE]
IntV(n) == [t |-> "int", v |-> n]
FloatV(n) == [t |-> "float", v |-> n]
StrV(s) == [t |-> "str", v |-> s]
ListV(s) == [t |-> "list", v |-> s]
DictV(d) == [t |-> "dict", v |-> d]

IsDict(x) == x.t = "dict"

HasKey(d, k) == \E p \in d.v : p[1] = k

\* dict.get(k): the value under k, None when k is absent.
DictGet(d, k) == IF HasKey(d, k) THEN (CHOOSE p \in d.v : p[1] = k)[2] ELSE None

DictKeys(d) == {p[1] : p \in d.v}

\* The outcome of a call: a returned value or a raised exception.
Return(x) == [kind |-> "return", val |-> x]
Raise(e) == [kind |-> "raise", val |-> [t |-> "exception", v |-> e]]

Returned(o) == o.kind = "return"
Raised(o) == o.kind = "raise"

\* Strings that Python's float() parses, with the number they denote.
NumericStrings == {<<"10", 10>>}

\* float(x): ints and floats convert, numeric strings parse, other strings
\* raise ValueError, everything else raises TypeError.
PyFloat(x) ==
  CASE x.t = "float" -> Return(FloatV(x.v))
    [] x.t = "int" -> Return(FloatV(x.v))
    [] x.t = "str" ->
         IF \E p \in NumericStrings : p[1] = x.v
         THEN Return(FloatV((CHOOSE p \in NumericStrings : p[1] = x.v)[2]))
         ELSE Raise("ValueError")
    [] OTHER -> Raise("TypeError")

\* Bearing(degrees): wraps a float of degrees normalised into [0, 360).
Bearing(x) ==
  LET f == PyFloat(x)
  IN IF Raised(f) THEN f ELSE Return([t |-> "Bearing", v |-> f.val.v % 360])

\* Point(lat, lon): an immutable pair.
Point(lat, lon) == Return([t |-> "Point", v |-> <<lat, lon>>])

\* Wind = namedtuple('Wind', ['absolute', 'speed', 'apparent'])
Wind(absolute, speed, apparent) ==
  [t |-> "Wind", v |-> <<absolute, speed, apparent>>]

(***************************************************************************)
(* Requests and responses.                                                 *)
(***************************************************************************)
NoBody == [t |-> "nobody"]

Req(method, endpoint, body) ==
  [method |-> method, endpoint |-> endpoint, body |-> body]

GoatGet == Req("GET", "/goat", NoBody)

\* What the daemon answers to one request: the connection or the HTTP status
\* fails ("neterr"), the body is not JSON ("badjson"), or the body decodes
\* to a JSON value ("ok").
NetErr == [status |-> "neterr", body |-> None]
BadJson == [status |-> "badjson", body |-> None]
Ok(b) == [status |-> "ok", body |-> b]

\* The result of running a piece of client code: the requests it issued, in
\* order, and its outcome.
Res(reqs, out) == [reqs |-> reqs, out |-> out]

\* urlopen(...) raises URLError, json.loads(...) raises ValueError.
Decode(resp) ==
  CASE resp.status = "neterr" -> Raise("URLError")
    [] resp.status = "badjson" -> Raise("ValueError")
    [] OTHER -> Return(resp.body)

\* get as it would be if it tried a failed request a second time.
Goatd_get_retry(endpoint, resp) ==
  IF resp.status = "ok"
  THEN Res(<<Req("GET", endpoint, NoBody)>>, Decode(resp))
  ELSE Res(<<Req("GET", endpoint, NoBody), Req("GET", endpoint, NoBody)>>,
           Decode(resp))

\* get(endpoint): one GET, the body decoded as JSON.
Goatd_get(endpoint, resp) ==
  Res(<<Req("GET", endpoint, NoBody)>>, Decode(resp))

\* post(content, endpoint): one POST of content, the answer decoded as JSON.
Goatd_post(content, endpoint, resp) ==
  Res(<<Req("POST", endpoint, content)>>, Decode(resp))

\* quit(): posts {'quit': True} to '/', prints the decoded answer, returns
\* None.
Goatd_quit(resp) ==
  LET r == Goatd_post(DictV({<<"quit", PyTrue>>}), "/", resp)
  IN IF Raised(r.out) THEN r ELSE Res(r.reqs, Return(None))

\* version: content.get('goatd').get('version'); .get on anything that is
\* not a dict (None included) raises AttributeError.
Goatd_version(resp) ==
  LET r == Goatd_get("/", resp)
  IN IF Raised(r.out) THEN r
     ELSE IF ~IsDict(r.out.val) THEN Res(r.reqs, Raise("AttributeError"))
     ELSE LET g == DictGet(r.out.val, "goatd")
          IN IF ~IsDict(g) THEN Res(r.reqs, Raise("AttributeError"))
             ELSE Res(r.reqs, Return(DictGet(g, "version")))

(***************************************************************************)
(* Goat: the proxy object is a record of its auto_update flag and its      *)
(* cached snapshot.  A method's result carries the object as the method    *)
(* leaves it.                                                              *)
(***************************************************************************)
GRes(reqs, out, self) == [reqs |-> reqs, out |-> out, self |-> self]

\* Goat.__init__: the snapshot starts as the empty dict.
Goat_init(auto_update) ==
  [auto_update |-> auto_update, cached_goat |-> DictV({})]

\* update() as it would be if it merged the response into the snapshot
\* (self._cached_goat.update(...)) instead of replacing it.
update_merge(self, resp) ==
  LET r == Goatd_get("/goat", resp)
  IN IF Raised(r.out) THEN GRes(r.reqs, r.out, self)
     ELSE IF ~IsDict(r.out.val) \/ ~IsDict(self.cached_goat)
          THEN GRes(r.reqs, Return(None), [self EXCEPT !.cached_goat = r.out.val])
     ELSE GRes(r.reqs, Return(None),
               [self EXCEPT !.cached_goat = DictV(r.out.val.v \cup
                  {p \in self.cached_goat.v : ~HasKey(r.out.val, p[1])})])

\* update() as it would be if it reset the snapshot before fetching.
update_clear_first(self, resp) ==
  LET r == Goatd_get("/goat", resp)
  IN IF Raised(r.out) THEN GRes(r.reqs, r.out, [self EXCEPT !.cached_goat = DictV({})])
     ELSE GRes(r.reqs, Return(None), [self EXCEPT !.cached_goat = r.out.val])

\* update(): self._cached_goat = self.goatd.get('/goat').  When get raises,
\* the assignment never happens.
update(self, resp) ==
  LET r == Goatd_get("/goat", resp)
  IN IF Raised(r.out) THEN GRes(r.reqs, r.out, self)
     ELSE GRes(r.reqs, Return(None), [self EXCEPT !.cached_goat = r.out.val])

\* heading as it would be with a default: content.get('heading', 0.0).
heading_default(self) ==
  LET content == self.cached_goat
  IN IF ~IsDict(content) THEN Raise("AttributeError")
     ELSE LET f == PyFloat(IF HasKey(content, "heading")
                           THEN DictGet(content, "heading") ELSE FloatV(0))
          IN IF Raised(f) THEN f ELSE Bearing(f.val)

\* heading: Bearing(float(content.get('heading')))
heading(self) ==
  LET content == self.cached_goat
  IN IF ~IsDict(content) THEN Raise("AttributeError")
     ELSE LET f == PyFloat(DictGet(content, "heading"))
          IN IF Raised(f) THEN f ELSE Bearing(f.val)

\* wind: Wind(Bearing(content.get('absolute')), content.get('speed'),
\*            Bearing(content.get('apparent'))), content the 'wind' field.
wind(self) ==
  IF ~IsDict(self.cached_goat) THEN Raise("AttributeError")
  ELSE LET content == DictGet(self.cached_goat, "wind")
       IN IF ~IsDict(content) THEN Raise("AttributeError")
          ELSE LET absolute == Bearing(DictGet(content, "absolute"))
                   apparent == Bearing(DictGet(content, "apparent"))
               IN IF Raised(absolute) THEN absolute
                  ELSE IF Raised(apparent) THEN apparent
                  ELSE Return(Wind(absolute.val, DictGet(content, "speed"),
                                   apparent.val))

\* lat, lon = x: a list of two elements unpacks, a list of another length
\* raises ValueError, a value that cannot be iterated (None, a number)
\* raises TypeError.
Unpack2(x) ==
  CASE x.t = "list" /\ Len(x.v) = 2 -> Return(x)
    [] x.t = "list" /\ Len(x.v) # 2 -> Raise("ValueError")
    [] OTHER -> Raise("TypeError")

\* position: lat, lon = content.get('position'); Point(lat, lon)
position(self) ==
  LET content == self.cached_goat
  IN IF ~IsDict(content) THEN Raise("AttributeError")
     ELSE LET u == Unpack2(DictGet(content, "position"))
          IN IF Raised(u) THEN u ELSE Point(u.val.v[1], u.val.v[2])

\* target_rudder_angle: float(content.get('rudder_angle'))
target_rudder_angle(self) ==
  LET content == self.cached_goat
  IN IF ~IsDict(content) THEN Raise("AttributeError")
     ELSE PyFloat(DictGet(content, "rudder_angle"))

\* target_sail_angle: float(content.get('sail_angle'))
target_sail_angle(self) ==
  LET content == self.cached_goat
  IN IF ~IsDict(content) THEN Raise("AttributeError")
     ELSE PyFloat(DictGet(content, "sail_angle"))

\* The five properties wrapped by _auto_update.
Accessors ==
  {"heading", "wind", "position", "target_rudder_angle", "target_sail_angle"}

\* f(self) for the wrapped function named f.
Body(f, self) ==
  CASE f = "heading" -> heading(self)
    [] f = "wind" -> wind(self)
    [] f = "position" -> position(self)
    [] f = "target_rudder_angle" -> target_rudder_angle(self)
    [] f = "target_sail_angle" -> target_sail_angle(self)

\* dec as it would be if it ignored the auto_update flag.
dec_always(f, self, resp) ==
  LET u == update(self, resp)
  IN IF Raised(u.out) THEN u ELSE GRes(u.reqs, Body(f, u.self), u.self)

\* dec as it would be if a failed update() fell back to the cached snapshot.
dec_fallback(f, self, resp) ==
  IF self.auto_update
  THEN LET u == update(self, resp)
       IN IF Raised(u.out) THEN GRes(u.reqs, Body(f, self), self)
          ELSE GRes(u.reqs, Body(f, u.self), u.self)
  ELSE GRes(<<>>, Body(f, self), self)

\* _auto_update's dec(self): if self.auto_update: self.update(); return
\* f(self).  An exception of update() leaves dec before f is called.
dec(f, self, resp) ==
  IF self.auto_update
  THEN LET u == update(self, resp)
       IN IF Raised(u.out) THEN u
          ELSE GRes(u.reqs, Body(f, u.self), u.self)
  ELSE GRes(<<>>, Body(f, self), self)

\* set_angle as it would be if a successful POST refreshed the snapshot.
set_angle_refresh(self, angle, endpoint, resp) ==
  LET a == PyFloat(angle)
  IN IF Raised(a) THEN GRes(<<>>, a, self)
     ELSE LET r == Goatd_post(DictV({<<"value", PyFloat(a.val).val>>}),
                              endpoint, resp)
          IN IF Raised(r.out) THEN GRes(r.reqs, r.out, self)
             ELSE IF ~IsDict(r.out.val)
                  THEN GRes(r.reqs, Raise("AttributeError"), self)
             ELSE LET u == update(self, Ok(DictV({})))
                  IN GRes(r.reqs \o u.reqs,
                          Return(DictGet(r.out.val, "result")), u.self)

\* set_rudder / set_sail: angle = float(angle); request = post({'value':
\* float(angle)}, endpoint); return request.get('result').
set_angle(self, angle, endpoint, resp) ==
  LET a == PyFloat(angle)
  IN IF Raised(a) THEN GRes(<<>>, a, self)
     ELSE LET r == Goatd_post(DictV({<<"value", PyFloat(a.val).val>>}),
                              endpoint, resp)
          IN IF Raised(r.out) THEN GRes(r.reqs, r.out, self)
             ELSE IF ~IsDict(r.out.val)
                  THEN GRes(r.reqs, Raise("AttributeError"), self)
             ELSE GRes(r.reqs, Return(DictGet(r.out.val, "result")), self)

set_rudder(self, angle, resp) == set_angle(self, angle, "/rudder", resp)

set_sail(self, angle, resp) == set_angle(self, angle, "/sail", resp)

(***************************************************************************)
(* Behaviour.                                                              *)
(***************************************************************************)
\* list(): list(self._get_behaviour_data().get('behaviours').keys()).  The
\* returned names are kept as a set: their order is the decoder's.
Behaviour_list(resp) ==
  LET r == Goatd_get("/behaviours", resp)
  IN IF Raised(r.out) THEN r
     ELSE IF ~IsDict(r.out.val) THEN Res(r.reqs, Raise("AttributeError"))
     ELSE LET b == DictGet(r.out.val, "behaviours")
          IN IF ~IsDict(b) THEN Res(r.reqs, Raise("AttributeError"))
             ELSE Res(r.reqs, Return([t |-> "keys", v |-> DictKeys(b)]))

\* 'started {}'.format(current)
Started(current) == [t |-> "str", v |-> "started {}", arg |-> current]

NoBehaviourRunning == StrV("no behaviour running")

\* start as it would be if it reported the requested name.
Behaviour_start_requested(name, resp) ==
  LET r == Goatd_post(DictV({<<"active", name>>}), "/behaviours", resp)
  IN IF Raised(r.out) THEN r
     ELSE IF ~IsDict(r.out.val) THEN Res(r.reqs, Raise("AttributeError"))
     ELSE IF name.t # "NoneType" THEN Res(r.reqs, Return(Started(name)))
     ELSE Res(r.reqs, Return(NoBehaviourRunning))

\* start(name): posts {'active': name}; answers from d.get('active').
Behaviour_start(name, resp) ==
  LET r == Goatd_post(DictV({<<"active", name>>}), "/behaviours", resp)
  IN IF Raised(r.out) THEN r
     ELSE IF ~IsDict(r.out.val) THEN Res(r.reqs, Raise("AttributeError"))
     ELSE LET current == DictGet(r.out.val, "active")
          IN IF current.t # "NoneType"
             THEN Res(r.reqs, Return(Started(current)))
             ELSE Res(r.reqs, Return(NoBehaviourRunning))

\* stop(): self.start(None), whose value is dropped: stop returns None.
Behaviour_stop(resp) ==
  LET r == Behaviour_start(None, resp)
  IN IF Raised(r.out) THEN r ELSE Res(r.reqs, Return(None))

(***************************************************************************)
(* Waypoint queries.                                                       *)
(***************************************************************************)
\* Point(*coords) takes exactly two positional arguments.
IsPair(x) == x.t = "list" /\ Len(x.v) = 2

\* get_current_waypoints: [Point(*coords) for coords in
\* content.get('waypoints')]
get_current_waypoints(resp) ==
  LET r == Goatd_get("/waypoints", resp)
  IN IF Raised(r.out) THEN r
     ELSE IF ~IsDict(r.out.val) THEN Res(r.reqs, Raise("AttributeError"))
     ELSE LET w == DictGet(r.out.val, "waypoints")
          IN IF w.t # "list" THEN Res(r.reqs, Raise("TypeError"))
             ELSE IF \E i \in 1..Len(w.v) : ~IsPair(w.v[i])
                  THEN Res(r.reqs, Raise("TypeError"))
             ELSE Res(r.reqs, Return(ListV(
                    [i \in 1..Len(w.v) |-> Point(w.v[i].v[1], w.v[i].v[2]).val])))

\* get_home_position: home = content.get('home', None); a Point when home
\* is not None, None otherwise.
get_home_position(resp) ==
  LET r == Goatd_get("/waypoints", resp)
  IN IF Raised(r.out) THEN r
     ELSE IF ~IsDict(r.out.val) THEN Res(r.reqs, Raise("AttributeError"))
     ELSE LET home == DictGet(r.out.val, "home")
          IN IF home.t # "NoneType"
             THEN LET u == Unpack2(home)
                  IN IF Raised(u) THEN Res(r.reqs, u)
                     ELSE Res(r.reqs, Point(u.val.v[1], u.val.v[2]))
             ELSE Res(r.reqs, Return(None))

(***************************************************************************)
(* The daemon's possible answers, per endpoint.  Each set holds a          *)
(* well-formed body, bodies with fields missing, the empty object and a    *)
(* JSON value that is not an object.                                       *)
(***************************************************************************)
Failures == {NetErr, BadJson}

NotAnObject == ListV(<<>>)

SnapshotA ==
  DictV({<<"heading", FloatV(90)>>,
         <<"wind", DictV({<<"absolute", FloatV(45)>>, <<"speed", FloatV(5)>>,
                          <<"apparent", FloatV(30)>>})>>,
         <<"position", ListV(<<FloatV(51), FloatV(0)>>)>>,
         <<"rudder_angle", FloatV(-10)>>,
         <<"sail_angle", FloatV(20)>>})

SnapshotB ==
  DictV({<<"heading", IntV(370)>>,
         <<"wind", DictV({<<"absolute", FloatV(400)>>, <<"speed", None>>,
                          <<"apparent", FloatV(0)>>})>>,
         <<"position", ListV(<<FloatV(52), FloatV(1)>>)>>,
         <<"rudder_angle", StrV("10")>>,
         <<"sail_angle", FloatV(0)>>})

\* A response that lacks most fields of the snapshot.
SnapshotPartial ==
  DictV({<<"heading", FloatV(180)>>, <<"position", ListV(<<FloatV(1)>>)>>})

GoatResponses ==
  Failures \cup {Ok(b) : b \in {SnapshotA, SnapshotB, SnapshotPartial,
                                DictV({}), NotAnObject}}

RootResponses ==
  Failures \cup {Ok(b) : b \in
    {DictV({<<"goatd", DictV({<<"version", StrV("1.1")>>})>>}),
     DictV({<<"goatd", DictV({})>>}),
     DictV({}),
     NotAnObject}}

SetResponses ==
  Failures \cup {Ok(b) : b \in
    {DictV({<<"result", FloatV(10)>>}), DictV({<<"result", StrV("ok")>>}),
     DictV({}), NotAnObject}}

BehaviourResponses ==
  Failures \cup {Ok(b) : b \in
    {DictV({<<"active", StrV("tack")>>}), DictV({<<"active", StrV("idle")>>}),
     DictV({<<"active", None>>}),
     DictV({<<"behaviours", DictV({<<"tack", DictV({})>>,
                                   <<"idle", DictV({})>>})>>}),
     DictV({}), NotAnObject}}

WaypointResponses ==
  Failures \cup {Ok(b) : b \in
    {DictV({<<"waypoints", ListV(<<ListV(<<IntV(1), IntV(2)>>)>>)>>}),
     DictV({<<"waypoints", ListV(<<>>)>>,
            <<"home", ListV(<<IntV(3), IntV(4)>>)>>}),
     DictV({<<"waypoints", ListV(<<ListV(<<IntV(1)>>)>>)>>,
            <<"home", ListV(<<IntV(3)>>)>>}),
     DictV({}), NotAnObject}}

Endpoints == {"/", "/goat", "/rudder", "/sail", "/behaviours", "/waypoints"}

ResponsesOf(endpoint) ==
  CASE endpoint = "/" -> RootResponses
    [] endpoint = "/goat" -> GoatResponses
    [] endpoint \in {"/rudder", "/sail"} -> SetResponses
    [] endpoint = "/behaviours" -> BehaviourResponses
    [] endpoint = "/waypoints" -> WaypointResponses

\* Angles handed to set_rudder and set_sail: an int, floats in and out of
\* the documented range, a numeric string, and a string float() rejects.
Angles == {IntV(10), FloatV(10), FloatV(-95), StrV("10"), StrV("port")}

\* Names handed to Behaviour.start.
Names == {StrV("tack"), StrV("idle"), None}

\* Bodies a caller posts through Goatd.post directly.
Contents == {DictV({<<"value", FloatV(0)>>})}

(***************************************************************************)
(* The state machine.  goat is the Goat object; call records the last      *)
(* public call: its operation and argument, the object before it, the      *)
(* daemon's answer, the requests issued and the outcome.  goatGets counts  *)
(* the GETs of /goat that the Goat object issued, updateCalls the explicit *)
(* calls of update(), lastGoat is the body of the last /goat response the  *)
(* Goat object decoded.                                                    *)
(***************************************************************************)
GoatOps == Accessors \cup {"update", "set_rudder", "set_sail"}

Count(reqs, q) == Cardinality({i \in 1..Len(reqs) : reqs[i] = q})

Init ==
  /\ goat \in {Goat_init(a) : a \in BOOLEAN}
  /\ call = [op |-> "__init__", arg |-> None, pre |-> goat, resp |-> Ok(None),
             reqs |-> <<>>, out |-> Return(None)]
  /\ goatGets = 0
  /\ updateCalls = 0
  /\ lastGoat = [seen |-> FALSE, body |-> None]
  /\ nOps = 0

\* One completed call of operation op: r is what the code did.
Finish(op, arg, resp, r, self) ==
  /\ nOps < MaxOps
  /\ nOps' = nOps + 1
  /\ goat' = self
  /\ call' = [op |-> op, arg |-> arg, pre |-> goat, resp |-> resp,
              reqs |-> r.reqs, out |-> r.out]
  /\ goatGets' = goatGets + (IF op \in GoatOps THEN Count(r.reqs, GoatGet) ELSE 0)
  /\ updateCalls' = updateCalls + (IF op = "update" THEN 1 ELSE 0)
  /\ lastGoat' = IF op \in GoatOps /\ Count(r.reqs, GoatGet) > 0
                    /\ resp.status = "ok"
                 THEN [seen |-> TRUE, body |-> resp.body]
                 ELSE lastGoat

DoGet ==
  \E e \in Endpoints : \E resp \in ResponsesOf(e) :
    Finish("get", StrV(e), resp, Goatd_get(e, resp), goat)

DoPost ==
  \E e \in Endpoints : \E c \in Contents : \E resp \in ResponsesOf(e) :
    Finish("post", StrV(e), resp, Goatd_post(c, e, resp), goat)

DoQuit ==
  \E resp \in RootResponses : Finish("quit", None, resp, Goatd_quit(resp), goat)

DoVersion ==
  \E resp \in RootResponses :
    Finish("version", None, resp, Goatd_version(resp), goat)

DoUpdate ==
  \E resp \in GoatResponses :
    LET r == update(goat, resp) IN Finish("update", None, resp, r, r.self)

DoRead ==
  \E f \in Accessors : \E resp \in GoatResponses :
    LET r == dec(f, goat, resp) IN Finish(f, None, resp, r, r.self)

DoSetRudder ==
  \E angle \in Angles : \E resp \in SetResponses :
    LET r == set_rudder(goat, angle, resp)
    IN Finish("set_rudder", angle, resp, r, r.self)

DoSetSail ==
  \E angle \in Angles : \E resp \in SetResponses :
    LET r == set_sail(goat, angle, resp)
    IN Finish("set_sail", angle, resp, r, r.self)

DoList ==
  \E resp \in BehaviourResponses :
    Finish("list", None, resp, Behaviour_list(resp), goat)

DoStart ==
  \E name \in Names : \E resp \in BehaviourResponses :
    Finish("start", name, resp, Behaviour_start(name, resp), goat)

DoStop ==
  \E resp \in BehaviourResponses :
    Finish("stop", None, resp, Behaviour_stop(resp), goat)

DoGetCurrentWaypoints ==
  \E resp \in WaypointResponses :
    Finish("get_current_waypoints", None, resp, get_current_waypoints(resp), goat)

DoGetHomePosition ==
  \E resp \in WaypointResponses :
    Finish("get_home_position", None, resp, get_home_position(resp), goat)

Next ==
  \/ DoGet
  \/ DoPost
  \/ DoQuit
  \/ DoVersion
  \/ DoUpdate
  \/ DoRead
  \/ DoSetRudder
  \/ DoSetSail
  \/ DoList
  \/ DoStart
  \/ DoStop
  \/ DoGetCurrentWaypoints
  \/ DoGetHomePosition

Spec == Init /\ [][Next]_vars

(***************************************************************************)
(* Properties.                                                             *)
(***************************************************************************)
Refreshing == Accessors \cup {"update"}

Setters == {"set_rudder", "set_sail"}

\* C1: with auto_update true every read of an accessor issues exactly one
\* GET of /goat; with auto_update false a read issues no request, and the
\* GETs of /goat issued by the Goat since construction are as many as the
\* explicit calls of update().
C1_OneGetPerRead ==
  /\ call.op \in Accessors =>
       call.reqs = IF call.pre.auto_update THEN <<GoatGet>> ELSE <<>>
  /\ ~goat.auto_update => goatGets = updateCalls

C1_Witness ==
  /\ ~goat.auto_update
  /\ call.op \in Accessors
  /\ Returned(call.out)
  /\ updateCalls = 1
  /\ goatGets = 1

\* C2: when the GET of update() fails (transport error or malformed JSON),
\* the failure is the caller's outcome and the snapshot is the one held
\* before the call; a read that does not refresh then yields exactly what
\* the prior snapshot yields.
C2_FailedUpdateKeepsSnapshot ==
  (call.op \in Refreshing /\ Count(call.reqs, GoatGet) > 0
     /\ call.resp.status # "ok")
  => /\ Raised(call.out)
     /\ call.out.val.v = (IF call.resp.status = "neterr" THEN "URLError"
                                                          ELSE "ValueError")
     /\ goat.cached_goat = call.pre.cached_goat
     /\ ~goat.auto_update =>
          \A f \in Accessors : \A resp \in GoatResponses :
            /\ dec(f, goat, resp).out = Body(f, call.pre)
            /\ dec(f, goat, resp).self = call.pre

C2_Witness ==
  /\ call.op = "update"
  /\ call.resp = BadJson
  /\ Raised(call.out)
  /\ call.pre.cached_goat = SnapshotA
  /\ goat.cached_goat = SnapshotA

\* The angles that are numbers: float(angle) is defined for them.
IsNumber(angle) ==
  angle.t \in {"int", "float"} \/ \E p \in NumericStrings : p[1] = angle.v

\* The number an angle argument denotes.
NumberOf(angle) ==
  IF angle.t = "str"
  THEN (CHOOSE p \in NumericStrings : p[1] = angle.v)[2]
  ELSE angle.v

\* C3: set_rudder and set_sail, given an angle that is a number, issue
\* exactly one POST, to /rudder and /sail, whose body is {"value": the
\* angle as a float}; they issue no GET of /goat and leave the snapshot and
\* the auto_update flag as they were whether the POST succeeds or fails; on
\* success they return the response's result field.
C3_SettersPostOnly ==
  call.op \in Setters =>
    /\ Count(call.reqs, GoatGet) = 0
    /\ goat = call.pre
    /\ IsNumber(call.arg) =>
         /\ Len(call.reqs) = 1
         /\ call.reqs[1].method = "POST"
         /\ call.reqs[1].endpoint = (IF call.op = "set_rudder" THEN "/rudder"
                                                                ELSE "/sail")
         /\ call.reqs[1].body = DictV({<<"value", [t |-> "float",
                                                   v |-> NumberOf(call.arg)]>>})
         /\ call.resp.status # "ok" => Raised(call.out)
         /\ (call.resp.status = "ok" /\ IsDict(call.resp.body)) =>
              call.out = Return(DictGet(call.resp.body, "result"))

C3_Witness ==
  /\ call.op = "set_rudder"
  /\ call.arg = IntV(10)
  /\ call.out = Return(FloatV(10))
  /\ call.pre.cached_goat = SnapshotA
  /\ call.pre.auto_update

\* C4: the snapshot is the empty dict until a /goat response was decoded and
\* from then on exactly the body of the most recent one: a successful
\* update() replaces the whole snapshot, no field of the old one survives.
C4_SnapshotIsLastResponse ==
  /\ goat.cached_goat = IF lastGoat.seen THEN lastGoat.body ELSE DictV({})
  /\ (call.op \in Refreshing /\ Count(call.reqs, GoatGet) > 0
        /\ call.resp.status = "ok")
     => goat.cached_goat = call.resp.body

C4_Witness ==
  /\ call.op = "update"
  /\ call.pre.cached_goat = SnapshotA
  /\ call.resp = Ok(SnapshotPartial)
  /\ ~HasKey(goat.cached_goat, "wind")

\* C5: stop() issues the same single POST {"active": null} to /behaviours
\* as start(null) and has the same outcome, returned value or failure, for
\* every answer of the daemon.
C5_StopIsStartNone ==
  call.op = "stop" =>
    /\ call.reqs = Behaviour_start(None, call.resp).reqs
    /\ call.out = Behaviour_start(None, call.resp).out

\* C6: version issues one GET of / and, for every response that is a JSON
\* object, returns goatd.version when present and None, without raising,
\* when goatd is missing or has no version key.
C6_VersionNeverRaises ==
  (call.op = "version" /\ call.resp.status = "ok" /\ IsDict(call.resp.body))
  => /\ call.reqs = <<Req("GET", "/", NoBody)>>
     /\ LET g == DictGet(call.resp.body, "goatd")
        IN call.out = IF IsDict(g) THEN Return(DictGet(g, "version"))
                                   ELSE Return(None)

\* C7: with auto_update false and the empty pre-fetch snapshot, a read of
\* any of the five accessors fails with an error, issues no request and
\* leaves the snapshot empty.
C7_EmptySnapshotReadFails ==
  (call.op \in Accessors /\ ~call.pre.auto_update
     /\ call.pre.cached_goat = DictV({}))
  => /\ Raised(call.out)
     /\ call.reqs = <<>>
     /\ goat.cached_goat = DictV({})

C7_Witness ==
  /\ call.op = "heading"
  /\ ~call.pre.auto_update
  /\ ~lastGoat.seen
  /\ call.pre.cached_goat = DictV({})
  /\ Raised(call.out)

\* C8: start(name) issues one POST {"active": name} to /behaviours, and its
\* result depends on the response's active field alone: "started {active}"
\* with the daemon's name when the field is not null, "no behaviour
\* running" when it is null or absent.
C8_StartReportsDaemonName ==
  call.op = "start" =>
    /\ call.reqs = <<Req("POST", "/behaviours", DictV({<<"active", call.arg>>}))>>
    /\ (call.resp.status = "ok" /\ IsDict(call.resp.body)) =>
         LET active == DictGet(call.resp.body, "active")
         IN call.out = IF active.t = "NoneType"
                       THEN Return(StrV("no behaviour running"))
                       ELSE Return([t |-> "str", v |-> "started {}",
                                    arg |-> active])

C8_Witness ==
  /\ call.op = "start"
  /\ call.arg = StrV("tack")
  /\ call.resp = Ok(DictV({<<"active", StrV("idle")>>}))
  /\ call.out = Return(Started(StrV("idle")))

\* C9: every public operation issues at most one request per call, and
\* when that request fails the call ends with the failure, no further
\* request issued.
C9_AtMostOneRequest ==
  /\ Len(call.reqs) <= 1
  /\ (Len(call.reqs) = 1 /\ call.resp.status # "ok") =>
       /\ Raised(call.out)
       /\ call.out.val.v \in {"URLError", "ValueError"}

C9_Witness ==
  /\ call.op = "get_home_position"
  /\ call.resp = NetErr
  /\ Len(call.reqs) = 1
  /\ Raised(call.out)

\* C10: with auto_update true, a value returned by an accessor is the one
\* the /goat response fetched during that read yields, never one from an
\* earlier snapshot; when the read's GET fails the accessor returns no
\* value.
C10_ReadIsFresh ==
  (call.op \in Accessors /\ call.pre.auto_update) =>
    /\ Returned(call.out) =>
         /\ call.resp.status = "ok"
         /\ call.reqs = <<GoatGet>>
         /\ call.out = Body(call.op, [call.pre EXCEPT !.cached_goat = call.resp.body])
    /\ call.resp.status # "ok" => Raised(call.out)

C10_Witness ==
  /\ call.op = "heading"
  /\ call.pre.auto_update
  /\ call.pre.cached_goat = SnapshotA
  /\ call.resp = Ok(SnapshotB)
  /\ call.out = Return([t |-> "Bearing", v |-> 10])

====
